---- MODULE Spec2Model ----
(***************************************************************************)
(* Model of src/main.py: the two endpoints of the video downloader         *)
(* (get_video_info, download_video), the external processes they spawn,    *)
(* the temporary file of the mp3 path and the body generators              *)
(* (stream_content, stream_mp3) of the streaming responses.                *)
(*                                                                         *)
(* One request is followed from its arrival to the end of its response     *)
(* (Spec).  Three more specifications start where the metadata fetch has   *)
(* returned: SpecSelect tries the preview's selection on every short list  *)
(* of streams, SpecSanitize the file name on every short title, SpecTemp   *)
(* follows two mp3 downloads that share TEMP_DIR.                          *)
(* Strings are abstracted as follows:                                      *)
(*   - a url is a sequence of tokens (scheme, "www.", host, "/", ...);     *)
(*   - the diagnostic text of a process (stderr) is the set of the marker  *)
(*     phrases it contains, so `"x" in stderr_output` is set membership;   *)
(*   - the captured standard output of the download process is its length  *)
(*     in bytes, and a slice stdout_data[a:b] is the pair of its offsets.  *)
(***************************************************************************)
EXTENDS Integers, Sequences, FiniteSets, TLC

----------------------------------------------------------------------------
(* Configuration *)

MAX_BYTES == 1 * 1024 * 1024 * 1024

chunk_size == 65536

----------------------------------------------------------------------------
(* Bounds of the model *)

\* payloads of 0 .. MaxSmallChunks whole chunks, each also with one byte more
MaxSmallChunks == 2

\* payloads over the ceiling: MAX_BYTES plus 0 .. MaxOverChunks whole chunks plus one byte
MaxOverChunks == 1

\* number of blocks of the temporary mp3 file
MaxFileBlocks == 2

----------------------------------------------------------------------------
(* Urls *)

None == [some |-> FALSE, s |-> <<>>]

Str(s) == [some |-> TRUE, s |-> s]

lower(t) ==
    CASE t = "HTTP://" -> "http://"
      [] t = "YouTube.com" -> "youtube.com"
      [] OTHER -> t

RECURSIVE lstrip(_)
lstrip(s) == IF s # <<>> /\ Head(s) = " " THEN lstrip(Tail(s)) ELSE s

RECURSIVE rstrip(_)
rstrip(s) ==
    IF s # <<>> /\ s[Len(s)] = " " THEN rstrip(SubSeq(s, 1, Len(s) - 1)) ELSE s

strip(s) == rstrip(lstrip(s))

\* ^(https?://)?(www\.)?(youtube\.com|youtu\.be)/   with re.IGNORECASE
YOUTUBE_RE_match(s) ==
    LET afterScheme == IF s # <<>> /\ lower(Head(s)) \in {"http://", "https://"}
                       THEN Tail(s) ELSE s
        afterWww == IF afterScheme # <<>> /\ lower(Head(afterScheme)) = "www."
                    THEN Tail(afterScheme) ELSE afterScheme
    IN  /\ Len(afterWww) >= 2
        /\ lower(afterWww[1]) \in {"youtube.com", "youtu.be"}
        /\ afterWww[2] = "/"

\* the pattern is forgotten: any non-empty url passes
is_youtube_url_truthy(url) == url.some /\ url.s # <<>>

is_youtube_url(url) == url.some /\ url.s # <<>> /\ YOUTUBE_RE_match(strip(url.s))

ValidUrls ==
    { Str(<<"https://", "www.", "youtube.com", "/", "watch">>),
      Str(<<" ", "HTTP://", "YouTube.com", "/", "watch", " ">>),
      Str(<<"youtu.be", "/", "watch">>) }

InvalidUrls ==
    { None,
      Str(<<>>),
      Str(<<" ">>),
      Str(<<"https://", "vimeo.com", "/", "watch">>),
      Str(<<"youtube.com">>),
      Str(<<"www.", "https://", "youtube.com", "/">>) }

Urls == ValidUrls \cup InvalidUrls

\* the request the large payloads are tried with
CanonicalUrl == Str(<<"https://", "www.", "youtube.com", "/", "watch">>)

----------------------------------------------------------------------------
(* Diagnostics and process results *)

AgeMarkers == {"age-restricted", "Sign in to confirm your age"}

BenignMarker == "does not start with a start code"

Stderrs == SUBSET (AgeMarkers \cup {BenignMarker})

ReturnCodes == {0, 1}

\* proc.returncode while the process has not been waited for
NoReturnCode == -1

\* what json.loads(stdout) does with the bytes of the metadata process: it
\* returns an object, returns another value ([], null, ...), raises
\* JSONDecodeError (malformed text), or raises UnicodeDecodeError when the
\* bytes cannot be decoded, which is no JSONDecodeError
StdoutKinds == {"object", "nonobject", "malformed", "undecodable"}

Binaries == {"yt-dlp", "ffmpeg"}

Formats == {"mp4", "webm", "mp3"}

Endpoints == {"video_info", "download"}

----------------------------------------------------------------------------
(* Payloads: the number of bytes the download process writes to its stdout *)

SmallPayloads ==
    UNION { {k * chunk_size, k * chunk_size + 1} : k \in 0..MaxSmallChunks }

LargePayloads ==
    {MAX_BYTES} \cup { MAX_BYTES + k * chunk_size + 1 : k \in 0..MaxOverChunks }

Payloads == SmallPayloads \cup LargePayloads

----------------------------------------------------------------------------
(* Slices of stdout_data and the bytes yielded to the client.  The bytes    *)
(* yielded are kept as the sequence of the maximal runs of consecutive     *)
(* offsets of stdout_data: yielding the slice that starts where the last   *)
(* run ends extends that run, any other slice starts a new run.            *)

Min(a, b) == IF a < b THEN a ELSE b

\* stdout_data[a:b] of a buffer of n bytes
Slice(n, a, b) == [lo |-> Min(a, n), hi |-> Min(b, n)]

SliceLen(c) == c.hi - c.lo

Emit(runs, c) ==
    IF SliceLen(c) = 0 THEN runs
    ELSE IF runs # <<>> /\ runs[Len(runs)].hi = c.lo
         THEN [runs EXCEPT ![Len(runs)].hi = c.hi]
         ELSE Append(runs, c)

RECURSIVE RunsLen(_)
RunsLen(runs) == IF runs = <<>> THEN 0 ELSE SliceLen(Head(runs)) + RunsLen(Tail(runs))

\* the bytes yielded are stdout_data[0:n]
IsPrefix(runs, n) == IF n = 0 THEN runs = <<>> ELSE runs = <<[lo |-> 0, hi |-> n]>>

----------------------------------------------------------------------------
(* Pure parts of the handlers *)

\* only the first marker phrase is looked for
HasAgeMarker_first(text) == "age-restricted" \in text

HasAgeMarker(text) == "age-restricted" \in text \/ "Sign in to confirm your age" \in text

\* check_binary(name, hint) returns without raising
check_binary(present, name) == name \in present

\* the binaries download_video checks before any work
BinariesOk(present, fmt) ==
    /\ check_binary(present, "yt-dlp")
    /\ fmt = "mp3" => check_binary(present, "ffmpeg")

\* the exit status is not looked at: the output of a failed process is parsed
get_video_meta_noExitCheck(rc, text, out) ==
    CASE out = "malformed" -> 502
      [] out = "undecodable" -> 500
      [] OTHER -> 200

\* get_video_meta after communicate(): 200 stands for a returned value,
\* 500 for the exception json.loads lets through on undecodable bytes
get_video_meta(rc, text, out) ==
    IF rc # 0
    THEN IF HasAgeMarker(text) THEN 403 ELSE 502
    ELSE CASE out = "malformed" -> 502
           [] out = "undecodable" -> 500
           [] OTHER -> 200

\* the endpoint after `meta = await get_video_meta(url)`: meta.get(...) raises
\* on a value that is no object
MetaStatus(rc, text, out) ==
    IF get_video_meta(rc, text, out) = 200 /\ out = "nonobject" THEN 500
    ELSE get_video_meta(rc, text, out)

\* the output file is not looked for
Mp3Failed_rcOnly(rc, exists) == rc # 0

\* the mp3 branch after communicate()
Mp3Failed(rc, exists) == rc # 0 \/ ~exists

Mp3Status(rc, text, exists) ==
    IF Mp3Failed(rc, exists)
    THEN IF HasAgeMarker(text) THEN 403 ELSE 502
    ELSE 200

\* every nonzero exit is fatal: the benign warning is not looked for
PipeFatal_anyNonzero(rc, text) == rc # 0

\* the benign warning is looked for first and hides an age restriction
PipeFatal_benignFirst(rc, text) == rc # 0 /\ BenignMarker \notin text

\* stream_content returns before the relay loop
PipeFatal(rc, text) ==
    rc # 0 /\ (HasAgeMarker(text) \/ BenignMarker \notin text)

\* finally: if proc.returncode is None: proc.kill()
Finally(proc, rc) == IF rc = NoReturnCode THEN "killed" ELSE proc

----------------------------------------------------------------------------
(* The metadata document: meta.get("formats", []) is a sequence of streams, *)
(* each a record of the keys the preview reads.  A key that is missing has  *)
(* the value Absent, a key whose JSON value is null has the value Null      *)
(* (Python's None); the codecs are strings, "none" for a track the stream   *)
(* does not have.                                                          *)

Absent == -2

Null == -1

\* f.get(k)
Get(f, k) == IF f[k] = Absent THEN Null ELSE f[k]

\* f.get(k, d)
GetOr(f, k, d) == IF f[k] = Absent THEN d ELSE f[k]

\* a or b, on None and numbers
Or(a, b) == IF a = Null \/ a = 0 THEN b ELSE a

\* a > b on None and numbers: "raise" stands for the TypeError of an
\* ordering comparison with None
GtScalar(a, b) ==
    IF a = Null \/ b = Null THEN "raise"
    ELSE IF a > b THEN "true" ELSE "false"

\* a > b on 2-tuples: the first components that are not equal decide
GtPair(a, b) ==
    IF a[1] # b[1] THEN GtScalar(a[1], b[1])
    ELSE IF a[2] # b[2] THEN GtScalar(a[2], b[2])
    ELSE "false"

\* max() raised
Raised == -3

\* max() keeps the stream it holds unless the next one compares greater
Better(gt, new, best) == gt = "true"

\* max(streams, key=..., default=None) over the candidates c (positions in the
\* formats list, in order) with the keys k: the position of the maximum, 0
\* for None, Raised for a TypeError.  n is the next candidate, best the
\* position held so far; pair tells which comparison the keys take.
RECURSIVE MaxFrom(_, _, _, _, _)
MaxFrom(c, k, n, best, pair) ==
    IF n > Len(c) THEN best
    ELSE LET gt == IF pair THEN GtPair(k[c[n]], k[best]) ELSE GtScalar(k[c[n]], k[best])
         IN  IF gt = "raise" THEN Raised
             ELSE MaxFrom(c, k, n + 1,
                          IF Better(gt, k[c[n]], k[best]) THEN c[n] ELSE best, pair)

PyMax(c, k, pair) == IF c = <<>> THEN 0 ELSE MaxFrom(c, k, 2, c[1], pair)

\* [p for p in range(lo, ...) if test[p]], as positions in order
RECURSIVE Positions(_, _)
Positions(test, lo) ==
    IF lo > Len(test) THEN <<>>
    ELSE IF test[lo] THEN <<lo>> \o Positions(test, lo + 1)
         ELSE Positions(test, lo + 1)

DigitValue(ch) ==
    CASE ch = "0" -> 0 [] ch = "1" -> 1 [] ch = "2" -> 2 [] ch = "3" -> 3
      [] ch = "4" -> 4 [] ch = "5" -> 5 [] ch = "6" -> 6 [] ch = "7" -> 7
      [] ch = "8" -> 8 [] ch = "9" -> 9

\* int(text) of a sequence of digits
RECURSIVE int(_)
int(text) ==
    IF Len(text) = 1 THEN DigitValue(text[1])
    ELSE 10 * int(SubSeq(text, 1, Len(text) - 1)) + DigitValue(text[Len(text)])

\* int(quality_req.replace("p", "")) if "p" in quality_req else 10000
height_req(quality) ==
    IF \E n \in 1..Len(quality) : quality[n] = "p"
    THEN int(SelectSeq(quality, LAMBDA ch : ch # "p"))
    ELSE 10000

\* f.get('acodec') != 'none'
HasAudio(f) == f.acodec # "none"

\* f.get('vcodec') != 'none'
HasVideo(f) == f.vcodec # "none"

\* f.get('vcodec') != 'none' and f.get('acodec') == 'none' and (f.get('height') or 0) <= height_req
IsVideoStream(f, h) ==
    HasVideo(f) /\ ~HasAudio(f) /\ Or(Get(f, "height"), 0) <= h

\* f.get('acodec') != 'none' and f.get('vcodec') == 'none'
IsAudioStream(f) == HasAudio(f) /\ ~HasVideo(f)

\* f.get('vcodec') != 'none' and f.get('acodec') != 'none' and (f.get('height') or 0) <= height_req
IsCombinedStream(f, h) ==
    HasVideo(f) /\ HasAudio(f) /\ Or(Get(f, "height"), 0) <= h

\* lambda x: (x.get('height', 0), x.get('vbr', 0))
VideoKey(f) == <<GetOr(f, "height", 0), GetOr(f, "vbr", 0)>>

\* lambda x: x.get('abr', 0)
AudioKey(f) == GetOr(f, "abr", 0)

\* f.get('filesize') or f.get('filesize_approx')
StreamSize(f) == Or(Get(f, "filesize"), Get(f, "filesize_approx"))

\* size1 + size2, each with `or 0`
SumSizes(a, b) == Or(a, 0) + Or(b, 0)

\* max(video_streams, key=...); Raised when max() raises
best_video_of(fs, h) ==
    PyMax(Positions([p \in 1..Len(fs) |-> IsVideoStream(fs[p], h)], 1),
          [p \in 1..Len(fs) |-> VideoKey(fs[p])], TRUE)

\* max(audio_streams, key=...)
best_audio_of(fs) ==
    PyMax(Positions([p \in 1..Len(fs) |-> IsAudioStream(fs[p])], 1),
          [p \in 1..Len(fs) |-> AudioKey(fs[p])], FALSE)

\* max(combined_streams, key=...)
best_combined_of(fs, h) ==
    PyMax(Positions([p \in 1..Len(fs) |-> IsCombinedStream(fs[p], h)], 1),
          [p \in 1..Len(fs) |-> VideoKey(fs[p])], TRUE)

\* get_video_info, lines 82-115: the streams chosen (positions, 0 for None)
\* and estimated_size, or raised when one of the max() calls raises
Selection(fs, fmt, quality) ==
    LET h == height_req(quality)
        none == [raised |-> FALSE, best_video |-> 0, best_audio |-> 0,
                 best_combined |-> 0, estimated_size |-> Null]
        raise == [none EXCEPT !.raised = TRUE]
        a == best_audio_of(fs)
        v == best_video_of(fs, h)
        c == best_combined_of(fs, h)
    IN  IF fmt = "mp3"
        THEN IF a = Raised THEN raise
             ELSE IF a = 0 THEN none
             ELSE [none EXCEPT !.best_audio = a, !.estimated_size = StreamSize(fs[a])]
        ELSE IF v = Raised \/ a = Raised THEN raise
             ELSE IF v # 0 /\ a # 0
             THEN [none EXCEPT !.best_video = v, !.best_audio = a,
                     !.estimated_size = SumSizes(StreamSize(fs[v]), StreamSize(fs[a]))]
             ELSE IF c = Raised THEN raise
             ELSE IF c = 0 THEN [none EXCEPT !.best_video = v, !.best_audio = a]
             ELSE [none EXCEPT !.best_video = v, !.best_audio = a, !.best_combined = c,
                     !.estimated_size = StreamSize(fs[c])]

\* the unit format_bytes ends at: size /= 1024 while size >= 1024 and n < 4
RECURSIVE UnitOf(_, _, _)
UnitOf(size, power, n) ==
    IF size >= power * 1024 /\ n < 4 THEN UnitOf(size, power * 1024, n + 1)
    ELSE [power |-> power, n |-> n]

power_labels == <<"B", "KB", "MB", "GB", "TB">>

\* f"{size:.2f}" of size / power, in hundredths: the quotient is exact in
\* binary floating point, so a tie is rounded to the even hundredth
Hundredths(size, power) ==
    LET q == (size * 100) \div power
        r == (size * 100) % power
    IN  IF 2 * r > power THEN q + 1
        ELSE IF 2 * r = power THEN q + (q % 2)
        ELSE q

\* format_bytes(size): "N/A", or the number in hundredths with its unit
format_bytes(size) ==
    IF size = Null THEN [text |-> "N/A"]
    ELSE LET u == UnitOf(size, 1, 0)
         IN  [hundredths |-> Hundredths(size, u.power), unit |-> power_labels[u.n + 1]]

\* one entry of meta["formats"]; sz is <<filesize, filesize_approx>>
Stream(vc, ac, h, vb, ab, sz) ==
    [vcodec |-> vc, acodec |-> ac, height |-> h, vbr |-> vb, abr |-> ab,
     filesize |-> sz[1], filesize_approx |-> sz[2]]

NoSize == <<Null, Null>>

ExactSize == <<1000, Null>>

ApproxSize == <<Absent, 1536>>

BothSizes == <<1152, 2048>>

VideoOnly ==
    {Stream("avc1", "none", h, vb, Absent, sz) :
        h \in {Absent, Null, 360, 720}, vb \in {Null, 1, 2}, sz \in {NoSize, ExactSize}}

AudioOnly ==
    {Stream("none", "mp4a", Absent, Absent, ab, sz) :
        ab \in {Absent, Null, 1, 2}, sz \in {NoSize, ApproxSize, BothSizes}}

CombinedStreams ==
    {Stream("avc1", "mp4a", h, vb, Absent, sz) :
        h \in {360, 720}, vb \in {Null, 1}, sz \in {NoSize, ApproxSize}}

Storyboard == Stream("none", "none", Absent, Absent, Absent, NoSize)

Streams == VideoOnly \cup AudioOnly \cup CombinedStreams \cup {Storyboard}

MaxStreams == 2

\* meta.get("formats", []): the lists of at most MaxStreams streams
FormatLists == UNION {[1..n -> Streams] : n \in 0..MaxStreams}

best == <<"b", "e", "s", "t">>

\* payload.get("quality", "best")
Qualities == {best, <<"3", "6", "0", "p">>, <<"7", "2", "0", "p">>}

\* the metadata the requests of the whole lifecycle are tried with: no
\* streams, a video and an audio stream, and a list max() raises on
SampleFormats ==
    {<<>>,
     <<Stream("avc1", "none", 720, 2, Absent, ExactSize),
       Stream("none", "mp4a", Absent, Absent, 2, ApproxSize)>>,
     <<Stream("avc1", "none", Null, 1, Absent, NoSize),
       Stream("avc1", "none", 360, 1, Absent, NoSize)>>}

----------------------------------------------------------------------------
(* File names: a title is a sequence of characters *)

\* the characters \s matches
Whitespace == {" ", "\t", "\n", "\r", "\f"}

\* the characters of the class [A-Za-z0-9_.-]
AllowedChars ==
    {"A", "B", "C", "D", "E", "F", "G", "H", "I", "J", "K", "L", "M",
     "N", "O", "P", "Q", "R", "S", "T", "U", "V", "W", "X", "Y", "Z",
     "a", "b", "c", "d", "e", "f", "g", "h", "i", "j", "k", "l", "m",
     "n", "o", "p", "q", "r", "s", "t", "u", "v", "w", "x", "y", "z",
     "0", "1", "2", "3", "4", "5", "6", "7", "8", "9", "_", ".", "-"}

\* every whitespace character becomes an underscore of its own
sub_whitespace_each(name) ==
    [n \in 1..Len(name) |-> IF name[n] \in Whitespace THEN "_" ELSE name[n]]

\* re.sub(r'\s+', '_', name): each maximal run of whitespace becomes "_"
RECURSIVE sub_whitespace(_)
sub_whitespace(name) ==
    IF name = <<>> THEN <<>>
    ELSE IF Head(name) \in Whitespace
         THEN IF Len(name) > 1 /\ name[2] \in Whitespace
              THEN sub_whitespace(Tail(name))
              ELSE <<"_">> \o sub_whitespace(Tail(name))
         ELSE <<Head(name)>> \o sub_whitespace(Tail(name))

\* re.sub(r'[^A-Za-z0-9_.-]', '', name)
sub_disallowed(name) == SelectSeq(name, LAMBDA ch : ch \in AllowedChars)

\* name.strip(chars)
RECURSIVE strip_chars(_, _)
strip_chars(name, chars) ==
    IF name # <<>> /\ Head(name) \in chars THEN strip_chars(Tail(name), chars)
    ELSE IF name # <<>> /\ name[Len(name)] \in chars
         THEN strip_chars(SubSeq(name, 1, Len(name) - 1), chars)
         ELSE name

download == <<"d", "o", "w", "n", "l", "o", "a", "d">>

sanitize_filename(name) ==
    LET safe == strip_chars(sub_disallowed(sub_whitespace(name)), {"_", ".", "-"})
    IN  IF safe = <<>> THEN download ELSE safe

\* the characters the titles are made of
TitleChars == {"a", " ", "\t", "_", ".", "!"}

MaxTitleLen == 5

\* meta.get("title", "video"): the titles of at most MaxTitleLen characters
Titles == UNION {[1..n -> TitleChars] : n \in 0..MaxTitleLen}

\* the title the requests of the whole lifecycle are tried with
SampleTitle == <<" ", "a", " ", "\t", "!", "a", ".">>

----------------------------------------------------------------------------
(* State *)

VARIABLES
    endpoint,       \* the endpoint the request is for
    url,            \* payload.get("url")
    format,         \* payload.get("format", "mp4")
    have,           \* the binaries shutil.which finds
    payload,        \* the bytes the download process would write to its stdout
    pc,             \* where the handler is: start, meta_wait, meta_got, mp3_wait,
                    \* mp3_got, body (the response is being sent), done
    outcome,        \* how the request ended ("" while it is in flight)
    status,         \* the status of the response (0: none yet)
    streaming,      \* a StreamingResponse was created
    metaProc,       \* the metadata process: none, running, exited
    dlProc,         \* the download/transcode process: none, running, exited, killed
    spawned,        \* number of create_subprocess_exec calls of the request
    returncode,     \* proc.returncode of the process the handler holds
    stderr_output,  \* the diagnostics communicate() returned
    meta_stdout,    \* the stdout communicate() returned in get_video_meta
    meta,           \* the value get_video_meta returned: none, object, nonobject
    stdout_data,    \* len(stdout_data) in stream_content
    i,              \* the offset the relay loop is at
    total_bytes,    \* total_bytes of the relay loop
    emitted,        \* the bytes yielded to the client, as runs of offsets
    gen,            \* the body generator: none, created, await, got, yield, done
    tempExists,     \* output_path exists
    tempEver,       \* output_path has existed
    cleanup,        \* the BackgroundTask: none, pending, ran
    sent,           \* blocks of the mp3 file yielded to the client
    formats,        \* meta.get("formats", []) of the video
    quality_req,    \* payload.get("quality", "best")
    best_video,     \* the position of best_video in formats (0: None)
    best_audio,     \* the position of best_audio in formats (0: None)
    best_combined,  \* the position of best_combined in formats (0: None)
    estimated_size, \* estimated_size of get_video_info (Null: None)
    body,           \* "estimated_size" of the response of get_video_info
    title,          \* meta.get("title", "video")
    safe_title,     \* safe_title of download_video (<<>>: not computed yet)
    requests,       \* concurrent mp3 downloads: where each is, its output_path, what it sent
    temp_dir        \* the files of TEMP_DIR: their paths and the request that wrote them

reqVars == <<endpoint, url, format, have, payload>>

respVars == <<status, streaming>>

procVars == <<metaProc, dlProc, spawned>>

commVars == <<returncode, stderr_output, meta_stdout>>

loopVars == <<stdout_data, i, total_bytes, emitted>>

fileVars == <<tempExists, tempEver, cleanup, sent>>

infoVars == <<formats, quality_req, best_video, best_audio, best_combined, estimated_size, body>>

nameVars == <<title, safe_title>>

tempVars == <<requests, temp_dir>>

vars == <<reqVars, pc, outcome, respVars, procVars, commVars, meta, loopVars, gen, fileVars,
          infoVars, nameVars, tempVars>>

NoBody == [text |-> ""]

\* nothing is selected yet
NoSelection ==
    /\ best_video = 0
    /\ best_audio = 0
    /\ best_combined = 0
    /\ estimated_size = Null
    /\ body = NoBody

\* the one request the large payloads are tried with
Canonical ==
    /\ endpoint = "download"
    /\ url = CanonicalUrl
    /\ format = "mp4"
    /\ have = Binaries

Init ==
    /\ endpoint \in Endpoints
    /\ url \in Urls
    /\ format \in Formats
    /\ have \in SUBSET Binaries
    /\ payload \in Payloads
    /\ payload \in LargePayloads => Canonical
    /\ pc = "start"
    /\ outcome = ""
    /\ status = 0
    /\ streaming = FALSE
    /\ metaProc = "none"
    /\ dlProc = "none"
    /\ spawned = 0
    /\ returncode = NoReturnCode
    /\ stderr_output = {}
    /\ meta_stdout = "none"
    /\ meta = "none"
    /\ stdout_data = 0
    /\ i = 0
    /\ total_bytes = 0
    /\ emitted = <<>>
    /\ gen = "none"
    /\ tempExists = FALSE
    /\ tempEver = FALSE
    /\ cleanup = "none"
    /\ sent = 0
    /\ formats \in (IF endpoint = "video_info" THEN SampleFormats ELSE {<<>>})
    /\ quality_req = best
    /\ NoSelection
    /\ title = SampleTitle
    /\ safe_title = <<>>
    /\ requests = <<>>
    /\ temp_dir = {}

\* the request ends with an error response (an HTTPException or an uncaught exception)
Fail(code, how) ==
    /\ pc' = "done"
    /\ outcome' = how
    /\ status' = code
    /\ UNCHANGED streaming

----------------------------------------------------------------------------
(* Both endpoints: validation and the metadata fetch *)

\* if not is_youtube_url(url): raise HTTPException(status_code=400, ...)
RejectUrl ==
    /\ pc = "start"
    /\ ~is_youtube_url(url)
    /\ Fail(400, "invalid_url")
    /\ UNCHANGED <<tempVars, infoVars, nameVars, reqVars, procVars, commVars, meta, loopVars, gen, fileVars>>

\* check_binary raises HTTPException(status_code=500, ...)
RejectBinary ==
    /\ pc = "start"
    /\ endpoint = "download"
    /\ is_youtube_url(url)
    /\ ~BinariesOk(have, format)
    /\ Fail(500, "binary_missing")
    /\ UNCHANGED <<tempVars, infoVars, nameVars, reqVars, procVars, commVars, meta, loopVars, gen, fileVars>>

\* get_video_info does not check the binaries: create_subprocess_exec raises
\* FileNotFoundError when yt-dlp is missing
SpawnMetaFails ==
    /\ pc = "start"
    /\ endpoint = "video_info"
    /\ is_youtube_url(url)
    /\ "yt-dlp" \notin have
    /\ Fail(500, "spawn_error")
    /\ UNCHANGED <<tempVars, infoVars, nameVars, reqVars, procVars, commVars, meta, loopVars, gen, fileVars>>

\* get_video_meta: proc = await asyncio.create_subprocess_exec(*meta_cmd, ...)
SpawnMeta ==
    /\ pc = "start"
    /\ is_youtube_url(url)
    /\ IF endpoint = "download" THEN BinariesOk(have, format) ELSE "yt-dlp" \in have
    /\ metaProc' = "running"
    /\ spawned' = spawned + 1
    /\ pc' = "meta_wait"
    /\ UNCHANGED <<tempVars, infoVars, nameVars, reqVars, outcome, respVars, dlProc, commVars, meta, loopVars, gen, fileVars>>

\* the output is read to its end without waiting for the process to exit
MetaCommunicate_nowait ==
    /\ pc = "meta_wait"
    /\ \E rc \in ReturnCodes, text \in Stderrs, out \in StdoutKinds :
        /\ returncode' = rc
        /\ stderr_output' = text
        /\ meta_stdout' = out
    /\ pc' = "meta_got"
    /\ UNCHANGED <<tempVars, infoVars, nameVars, reqVars, outcome, respVars, procVars, meta, loopVars, gen, fileVars>>

\* get_video_meta: stdout, stderr = await proc.communicate()
MetaCommunicate ==
    /\ pc = "meta_wait"
    /\ \E rc \in ReturnCodes, text \in Stderrs, out \in StdoutKinds :
        /\ returncode' = rc
        /\ stderr_output' = text
        /\ meta_stdout' = out
    /\ metaProc' = "exited"
    /\ pc' = "meta_got"
    /\ UNCHANGED <<tempVars, infoVars, nameVars, reqVars, outcome, respVars, dlProc, spawned, meta, loopVars, gen, fileVars>>

\* the handler is cancelled while it awaits communicate(): nothing of the
\* handler runs any more, the process it awaited is left as it is
Cancel ==
    /\ pc \in {"meta_wait", "mp3_wait"}
    /\ pc' = "done"
    /\ outcome' = "cancelled"
    /\ UNCHANGED <<tempVars, infoVars, nameVars, reqVars, respVars, procVars, commVars, meta, loopVars, gen, fileVars>>

\* get_video_meta raises, or the endpoint raises on the value it returned
MetaFail ==
    /\ pc = "meta_got"
    /\ MetaStatus(returncode, stderr_output, meta_stdout) # 200
    /\ meta' = IF get_video_meta(returncode, stderr_output, meta_stdout) = 200
               THEN meta_stdout ELSE meta
    /\ Fail(MetaStatus(returncode, stderr_output, meta_stdout), "meta_error")
    /\ UNCHANGED <<tempVars, infoVars, nameVars, reqVars, procVars, commVars, loopVars, gen, fileVars>>

\* get_video_info after the metadata fetch: one of the max() calls raises a
\* TypeError, which nothing catches
InfoRaises ==
    /\ pc = "meta_got"
    /\ endpoint = "video_info"
    /\ MetaStatus(returncode, stderr_output, meta_stdout) = 200
    /\ Selection(formats, format, quality_req).raised
    /\ meta' = meta_stdout
    /\ returncode' = NoReturnCode
    /\ stderr_output' = {}
    /\ meta_stdout' = "none"
    /\ Fail(500, "info_error")
    /\ UNCHANGED <<tempVars, infoVars, nameVars, reqVars, procVars, loopVars, gen, fileVars>>

\* get_video_info after the metadata fetch: the streams are chosen, the size
\* is estimated, return {...}
InfoRespond ==
    /\ pc = "meta_got"
    /\ endpoint = "video_info"
    /\ MetaStatus(returncode, stderr_output, meta_stdout) = 200
    /\ LET sel == Selection(formats, format, quality_req)
       IN  /\ ~sel.raised
           /\ best_video' = sel.best_video
           /\ best_audio' = sel.best_audio
           /\ best_combined' = sel.best_combined
           /\ estimated_size' = sel.estimated_size
           /\ body' = format_bytes(sel.estimated_size)
    /\ meta' = meta_stdout
    /\ returncode' = NoReturnCode
    /\ stderr_output' = {}
    /\ meta_stdout' = "none"
    /\ pc' = "done"
    /\ outcome' = "info_ok"
    /\ status' = 200
    /\ UNCHANGED <<tempVars, formats, quality_req, nameVars, reqVars, streaming, procVars, loopVars, gen, fileVars>>

----------------------------------------------------------------------------
(* download_video, mp3 branch *)

\* proc = await asyncio.create_subprocess_exec(*dl_cmd, stderr=PIPE)
SpawnTranscode ==
    /\ pc = "meta_got"
    /\ endpoint = "download"
    /\ format = "mp3"
    /\ MetaStatus(returncode, stderr_output, meta_stdout) = 200
    /\ meta' = meta_stdout
    /\ returncode' = NoReturnCode
    /\ stderr_output' = {}
    /\ meta_stdout' = "none"
    /\ dlProc' = "running"
    /\ spawned' = spawned + 1
    /\ safe_title' = sanitize_filename(title)
    /\ pc' = "mp3_wait"
    /\ UNCHANGED <<tempVars, infoVars, title, reqVars, outcome, respVars, metaProc, loopVars, gen, fileVars>>

\* the transcode process writes output_path (-o str(output_path))
TranscodeWrite ==
    /\ format = "mp3"
    /\ dlProc = "running"
    /\ ~tempExists
    /\ tempExists' = TRUE
    /\ tempEver' = TRUE
    /\ UNCHANGED <<tempVars, infoVars, nameVars, reqVars, pc, outcome, respVars, procVars, commVars, meta, loopVars,
                   gen, cleanup, sent>>

\* _, stderr = await proc.communicate()
Mp3Communicate ==
    /\ pc = "mp3_wait"
    /\ \E rc \in ReturnCodes, text \in Stderrs :
        /\ returncode' = rc
        /\ stderr_output' = text
    /\ dlProc' = "exited"
    /\ pc' = "mp3_got"
    /\ UNCHANGED <<tempVars, infoVars, nameVars, reqVars, outcome, respVars, metaProc, spawned, meta_stdout, meta,
                   loopVars, gen, fileVars>>

\* if proc.returncode != 0 or not output_path.exists(): raise HTTPException(...)
Mp3Fail ==
    /\ pc = "mp3_got"
    /\ Mp3Failed(returncode, tempExists)
    /\ Fail(Mp3Status(returncode, stderr_output, tempExists), "mp3_error")
    /\ UNCHANGED <<tempVars, infoVars, nameVars, reqVars, procVars, commVars, meta, loopVars, gen, fileVars>>

\* return StreamingResponse(stream_mp3(), ..., background=cleanup_task)
Mp3Respond ==
    /\ pc = "mp3_got"
    /\ ~Mp3Failed(returncode, tempExists)
    /\ streaming' = TRUE
    /\ status' = 200
    /\ cleanup' = "pending"
    /\ gen' = "created"
    /\ pc' = "body"
    /\ UNCHANGED <<tempVars, infoVars, nameVars, reqVars, outcome, procVars, commVars, meta, loopVars,
                   tempExists, tempEver, sent>>

\* stream_mp3: with open(output_path, "rb") as f: yield from f
Mp3Yield ==
    /\ pc = "body"
    /\ format = "mp3"
    /\ sent < MaxFileBlocks
    /\ sent' = sent + 1
    /\ gen' = "yield"
    /\ UNCHANGED <<tempVars, infoVars, nameVars, reqVars, pc, outcome, respVars, procVars, commVars, meta, loopVars,
                   tempExists, tempEver, cleanup>>

\* cleanup_file_sync(path): path.unlink(missing_ok=True)
cleanup_file_sync(exists) == FALSE

\* the file is exhausted, the body is delivered and the background task runs
Mp3Finish ==
    /\ pc = "body"
    /\ format = "mp3"
    /\ gen' = "done"
    /\ cleanup' = "ran"
    /\ tempExists' = cleanup_file_sync(tempExists)
    /\ pc' = "done"
    /\ outcome' = "complete"
    /\ UNCHANGED <<tempVars, infoVars, nameVars, reqVars, respVars, procVars, commVars, meta, loopVars, tempEver, sent>>

\* the client disconnects while the body is sent: whether the response still
\* runs its background task is up to the server and the framework version
Mp3Disconnect ==
    /\ pc = "body"
    /\ format = "mp3"
    /\ gen' = "done"
    /\ \E runs \in BOOLEAN :
        /\ cleanup' = IF runs THEN "ran" ELSE cleanup
        /\ tempExists' = IF runs THEN cleanup_file_sync(tempExists) ELSE tempExists
    /\ pc' = "done"
    /\ outcome' = "disconnect"
    /\ UNCHANGED <<tempVars, infoVars, nameVars, reqVars, respVars, procVars, commVars, meta, loopVars, tempEver, sent>>

----------------------------------------------------------------------------
(* download_video, direct pipe (mp4/webm) *)

\* proc = await asyncio.create_subprocess_exec(*dl_cmd, stdout=PIPE, stderr=PIPE)
\* return StreamingResponse(stream_content(), ...)
SpawnPipe ==
    /\ pc = "meta_got"
    /\ endpoint = "download"
    /\ format # "mp3"
    /\ MetaStatus(returncode, stderr_output, meta_stdout) = 200
    /\ meta' = meta_stdout
    /\ returncode' = NoReturnCode
    /\ stderr_output' = {}
    /\ meta_stdout' = "none"
    /\ dlProc' = "running"
    /\ spawned' = spawned + 1
    /\ streaming' = TRUE
    /\ status' = 200
    /\ gen' = "created"
    /\ safe_title' = sanitize_filename(title)
    /\ pc' = "body"
    /\ UNCHANGED <<tempVars, infoVars, title, reqVars, outcome, metaProc, loopVars, fileVars>>

\* the response iterates stream_content() for the first time: the generator
\* enters the try block and awaits proc.communicate()
GenStart ==
    /\ pc = "body"
    /\ format # "mp3"
    /\ gen = "created"
    /\ gen' = "await"
    /\ UNCHANGED <<tempVars, infoVars, nameVars, reqVars, pc, outcome, respVars, procVars, commVars, meta, loopVars,
                   fileVars>>

\* the pipes are read to their end without waiting for the process to exit
PipeCommunicate_nowait ==
    /\ pc = "body"
    /\ gen = "await"
    /\ \E rc \in ReturnCodes, text \in Stderrs :
        /\ returncode' = rc
        /\ stderr_output' = text
    /\ stdout_data' = payload
    /\ gen' = "got"
    /\ UNCHANGED <<tempVars, infoVars, nameVars, reqVars, pc, outcome, respVars, procVars, meta_stdout, meta,
                   i, total_bytes, emitted, fileVars>>

\* stdout_data, stderr_data = await proc.communicate()
PipeCommunicate ==
    /\ pc = "body"
    /\ gen = "await"
    /\ \E rc \in ReturnCodes, text \in Stderrs :
        /\ returncode' = rc
        /\ stderr_output' = text
    /\ stdout_data' = payload
    /\ dlProc' = "exited"
    /\ gen' = "got"
    /\ UNCHANGED <<tempVars, infoVars, nameVars, reqVars, pc, outcome, respVars, metaProc, spawned, meta_stdout, meta,
                   i, total_bytes, emitted, fileVars>>

\* the generator returns (before the loop, at a break, or when the loop is
\* exhausted): the finally block runs and the response ends
GenReturn(how) ==
    /\ dlProc' = Finally(dlProc, returncode)
    /\ gen' = "done"
    /\ pc' = "done"
    /\ outcome' = how
    /\ UNCHANGED <<tempVars, infoVars, nameVars, reqVars, respVars, metaProc, spawned, commVars, meta, fileVars>>

\* if proc.returncode != 0: ... return
PipeReturnFatal ==
    /\ pc = "body"
    /\ gen = "got"
    /\ PipeFatal(returncode, stderr_output)
    /\ GenReturn("fatal")
    /\ UNCHANGED loopVars

\* the generator runs on: after communicate() when the result is not fatal,
\* or when the response asks for the next chunk
Relaying ==
    /\ pc = "body"
    /\ format # "mp3"
    /\ \/ gen = "got" /\ ~PipeFatal(returncode, stderr_output)
       \/ gen = "yield"

\* the end of the slice does not move with i: stdout_data[i:chunk_size]
NextChunk_endFixed ==
    Slice(stdout_data, i, IF i < chunk_size THEN chunk_size ELSE i)

\* chunk = stdout_data[i:i+chunk_size]
NextChunk == Slice(stdout_data, i, i + chunk_size)

\* the ceiling is compared with >= instead of >
OverCeiling_ge(total) == total >= MAX_BYTES

\* if total_bytes > MAX_BYTES
OverCeiling(total) == total > MAX_BYTES

\* total_bytes += len(chunk); ...; yield chunk
PipeYield ==
    /\ Relaying
    /\ i < stdout_data
    /\ ~OverCeiling(total_bytes + SliceLen(NextChunk))
    /\ total_bytes' = total_bytes + SliceLen(NextChunk)
    /\ emitted' = Emit(emitted, NextChunk)
    /\ i' = i + chunk_size
    /\ gen' = "yield"
    /\ UNCHANGED <<tempVars, infoVars, nameVars, reqVars, pc, outcome, respVars, procVars, commVars, meta, stdout_data,
                   fileVars>>

\* total_bytes += len(chunk); if total_bytes > MAX_BYTES: break
PipeBreak ==
    /\ Relaying
    /\ i < stdout_data
    /\ OverCeiling(total_bytes + SliceLen(NextChunk))
    /\ total_bytes' = total_bytes + SliceLen(NextChunk)
    /\ GenReturn("truncated")
    /\ UNCHANGED <<stdout_data, i, emitted>>

\* range(0, len(stdout_data), chunk_size) is exhausted
PipeExhaust ==
    /\ Relaying
    /\ i >= stdout_data
    /\ GenReturn("complete")
    /\ UNCHANGED loopVars

\* the client disconnects: a generator that was never iterated runs no code,
\* one suspended in the try block (at the await or at a yield) runs finally
PipeDisconnect ==
    /\ pc = "body"
    /\ format # "mp3"
    /\ gen \in {"created", "await", "yield"}
    /\ dlProc' = IF gen = "created" THEN dlProc ELSE Finally(dlProc, returncode)
    /\ gen' = "done"
    /\ pc' = "done"
    /\ outcome' = "disconnect"
    /\ UNCHANGED <<tempVars, infoVars, nameVars, reqVars, respVars, metaProc, spawned, commVars, meta, loopVars, fileVars>>

----------------------------------------------------------------------------

Next ==
    \/ RejectUrl
    \/ RejectBinary
    \/ SpawnMetaFails
    \/ SpawnMeta
    \/ MetaCommunicate
    \/ Cancel
    \/ MetaFail
    \/ InfoRaises
    \/ InfoRespond
    \/ SpawnTranscode
    \/ TranscodeWrite
    \/ Mp3Communicate
    \/ Mp3Fail
    \/ Mp3Respond
    \/ Mp3Yield
    \/ Mp3Finish
    \/ Mp3Disconnect
    \/ SpawnPipe
    \/ GenStart
    \/ PipeCommunicate
    \/ PipeReturnFatal
    \/ PipeYield
    \/ PipeBreak
    \/ PipeExhaust
    \/ PipeDisconnect

Spec == Init /\ [][Next]_vars

----------------------------------------------------------------------------
(* The preview from the return of the metadata fetch on: every list of at   *)
(* most MaxStreams streams, under every format and quality.                 *)

\* get_video_meta has returned the document to the handler of endpoint e
MetaFetched(e) ==
    /\ endpoint = e
    /\ url = CanonicalUrl
    /\ format \in Formats
    /\ have = Binaries
    /\ payload = 0
    /\ pc = "meta_got"
    /\ outcome = ""
    /\ status = 0
    /\ streaming = FALSE
    /\ metaProc = "exited"
    /\ dlProc = "none"
    /\ spawned = 1
    /\ returncode = 0
    /\ stderr_output = {}
    /\ meta_stdout = "object"
    /\ meta = "none"
    /\ stdout_data = 0
    /\ i = 0
    /\ total_bytes = 0
    /\ emitted = <<>>
    /\ gen = "none"
    /\ tempExists = FALSE
    /\ tempEver = FALSE
    /\ cleanup = "none"
    /\ sent = 0
    /\ NoSelection
    /\ safe_title = <<>>

InitSelect ==
    /\ MetaFetched("video_info")
    /\ requests = <<>>
    /\ temp_dir = {}
    /\ formats \in FormatLists
    /\ quality_req \in Qualities
    /\ title = SampleTitle

NextSelect ==
    \/ InfoRaises
    \/ InfoRespond

SpecSelect == InitSelect /\ [][NextSelect]_vars

----------------------------------------------------------------------------
(* The download from the return of the metadata fetch to the spawn of the   *)
(* download process: every title of at most MaxTitleLen characters.         *)

InitSanitize ==
    /\ MetaFetched("download")
    /\ requests = <<>>
    /\ temp_dir = {}
    /\ formats = <<>>
    /\ quality_req = best
    /\ title \in Titles

NextSanitize ==
    \/ SpawnTranscode
    \/ SpawnPipe

SpecSanitize == InitSanitize /\ [][NextSanitize]_vars

----------------------------------------------------------------------------
(* Two mp3 downloads in flight at the same time, each from the return of    *)
(* its metadata fetch on.  They share TEMP_DIR and nothing else.            *)

Requests == {1, 2}

\* the titles of the two videos: two of them have the same sanitized title
TempTitles == {<<"a">>, <<"a", "!">>, <<"b">>}

\* Path(tempfile.mktemp()).stem: "tmp" and random characters of [a-z0-9_],
\* the same number of them in every name
Stems == {<<"t", "m", "p", "a">>, <<"t", "m", "p", "_">>}

\* TEMP_DIR / f"{safe_title}_{stem}.mp3"
output_path_of(safe, stem) == safe \o <<"_">> \o stem \o <<".", "m", "p", "3">>

NoPath == <<>>

\* output_path.exists()
exists(path) == \E f \in temp_dir : f.path = path

\* the files of TEMP_DIR after path was written by request r
Written(path, r) == {f \in temp_dir : f.path # path} \cup {[path |-> path, by |-> r]}

\* the files of TEMP_DIR after path.unlink(missing_ok=True)
Unlinked(path) == {f \in temp_dir : f.path # path}

\* the single-request variables are not followed here
InitTemp ==
    /\ MetaFetched("download")
    /\ format = "mp3"
    /\ formats = <<>>
    /\ quality_req = best
    /\ title = SampleTitle
    /\ requests \in [Requests -> {[pc |-> "meta_got", title |-> t, output_path |-> NoPath,
                                   wrote |-> FALSE, sent |-> 0, outcome |-> ""] :
                                       t \in TempTitles}]
    /\ temp_dir = {}

TempUnchanged ==
    UNCHANGED <<reqVars, pc, outcome, respVars, procVars, commVars, meta, loopVars, gen,
                fileVars, infoVars, nameVars>>

\* safe_title = sanitize_filename(title); temp_filename = f"{safe_title}_{Path(
\* tempfile.mktemp()).stem}.mp3": mktemp returns a name no file of the system
\* temporary directory has, and this program makes no file there, so any
\* name can come back.  Then the transcode process is spawned.
TempSpawn(r) ==
    /\ requests[r].pc = "meta_got"
    /\ \E stem \in Stems :
        requests' = [requests EXCEPT
            ![r].output_path = output_path_of(sanitize_filename(requests[r].title), stem),
            ![r].pc = "mp3_wait"]
    /\ UNCHANGED temp_dir
    /\ TempUnchanged

\* the transcode process of r writes its output: -o str(output_path)
TempWrite(r) ==
    /\ requests[r].pc = "mp3_wait"
    /\ ~requests[r].wrote
    /\ temp_dir' = Written(requests[r].output_path, r)
    /\ requests' = [requests EXCEPT ![r].wrote = TRUE]
    /\ TempUnchanged

\* _, stderr = await proc.communicate(); if proc.returncode != 0 or not
\* output_path.exists(): raise HTTPException(...)
TempFail(r) ==
    /\ requests[r].pc = "mp3_wait"
    /\ \E rc \in ReturnCodes :
        /\ rc # 0 \/ ~exists(requests[r].output_path)
        /\ rc = 0 => requests[r].wrote
    /\ requests' = [requests EXCEPT ![r].pc = "done", ![r].outcome = "mp3_error"]
    /\ UNCHANGED temp_dir
    /\ TempUnchanged

\* the process exited with 0 and output_path exists:
\* return StreamingResponse(stream_mp3(), ..., background=cleanup_task)
TempRespond(r) ==
    /\ requests[r].pc = "mp3_wait"
    /\ requests[r].wrote
    /\ exists(requests[r].output_path)
    /\ requests' = [requests EXCEPT ![r].pc = "body"]
    /\ UNCHANGED temp_dir
    /\ TempUnchanged

\* stream_mp3: open(output_path, "rb") raises FileNotFoundError
TempOpenFails(r) ==
    /\ requests[r].pc = "body"
    /\ ~exists(requests[r].output_path)
    /\ requests' = [requests EXCEPT ![r].pc = "done", ![r].outcome = "open_error"]
    /\ UNCHANGED temp_dir
    /\ TempUnchanged

\* stream_mp3: with open(output_path, "rb") as f: yield from f
TempStream(r) ==
    /\ requests[r].pc = "body"
    /\ \E f \in temp_dir :
        /\ f.path = requests[r].output_path
        /\ requests' = [requests EXCEPT ![r].pc = "sent", ![r].sent = f.by]
    /\ UNCHANGED temp_dir
    /\ TempUnchanged

\* the BackgroundTask: cleanup_file_sync(output_path)
TempCleanup(r) ==
    /\ requests[r].pc = "sent"
    /\ temp_dir' = Unlinked(requests[r].output_path)
    /\ requests' = [requests EXCEPT ![r].pc = "done", ![r].outcome = "complete"]
    /\ TempUnchanged

NextTemp ==
    \E r \in Requests :
        \/ TempSpawn(r)
        \/ TempWrite(r)
        \/ TempFail(r)
        \/ TempRespond(r)
        \/ TempOpenFails(r)
        \/ TempStream(r)
        \/ TempCleanup(r)

SpecTemp == InitTemp /\ [][NextTemp]_vars

----------------------------------------------------------------------------
(* Properties *)

Pipe == endpoint = "download" /\ format # "mp3"

Audio == endpoint = "download" /\ format = "mp3"

\* the ceiling rounded down to a whole number of chunks
CeilingFloor == (MAX_BYTES \div chunk_size) * chunk_size

\* the generator of the pipe path ran to its own end after a non-fatal exit
RelayEnded == Pipe /\ outcome \in {"complete", "truncated"}

\* C1: in the pipe path the bytes yielded never exceed MAX_BYTES; for a payload
\* larger than the ceiling the stream ends with exactly the ceiling rounded down
\* to a whole chunk yielded (so no chunk was yielded past it), and the process
\* is not alive when the stream has ended.
C1_CeilingEnforced ==
    Pipe =>
        /\ RunsLen(emitted) <= MAX_BYTES
        /\ stdout_data > MAX_BYTES => RunsLen(emitted) <= CeilingFloor
        /\ RelayEnded /\ stdout_data > MAX_BYTES =>
            /\ outcome = "truncated"
            /\ RunsLen(emitted) = CeilingFloor
            /\ dlProc # "running"

C1_Witness ==
    /\ Pipe
    /\ outcome = "truncated"
    /\ stdout_data > MAX_BYTES + chunk_size
    /\ RunsLen(emitted) = MAX_BYTES

\* C2: in the pipe path, once the download process was spawned, the process is
\* not running when the response has ended, whichever way it ended.
C2_NoOrphanProcess ==
    Pipe /\ pc = "done" /\ dlProc # "none" => dlProc # "running"

\* C3: in the mp3 path, after a request whose transcode process was started has
\* ended (delivered, disconnected, or failed by the transcode), the temporary
\* file does not exist.
C3_TempFileRemoved ==
    Audio /\ pc = "done" /\ dlProc # "none"
          /\ outcome \in {"complete", "disconnect", "mp3_error"}
        => ~tempExists

\* the step that classifies the outcome of a process, at each of the three places
Classifies(site) ==
    CASE site = "meta" -> pc = "meta_got" /\ pc' # pc
      [] site = "mp3" -> pc = "mp3_got" /\ pc' # pc
      [] site = "pipe" -> gen = "got" /\ gen' # gen

\* the outcome of the step is the age-restricted one: status 403 before the
\* response has begun, an empty body once it has
AgeRestricted(site) ==
    IF site = "pipe"
    THEN outcome' = "fatal" /\ emitted' = <<>>
    ELSE pc' = "done" /\ status' = 403

ContainsAgeMarker == stderr_output \cap AgeMarkers # {}

\* C4 as claimed: wherever the outcome of a process is classified, diagnostics
\* with an age-restriction marker give AgeRestricted, whatever the exit status.
C4_AgeRestrictedAnyExit ==
    [][\A site \in {"meta", "mp3", "pipe"} :
        Classifies(site) /\ ContainsAgeMarker => AgeRestricted(site)]_vars

\* C4 amended: wherever the outcome of a process is classified, diagnostics with
\* an age-restriction marker give AgeRestricted when the exit status is nonzero
\* (in the mp3 path also when the output file is missing).
C4_AgeRestrictedOnFailure ==
    [][\A site \in {"meta", "mp3", "pipe"} :
        /\ Classifies(site)
        /\ ContainsAgeMarker
        /\ returncode # 0 \/ (site = "mp3" /\ ~tempExists)
        => AgeRestricted(site)]_vars

C4_Witness ==
    /\ Pipe
    /\ outcome = "fatal"
    /\ returncode # 0
    /\ "Sign in to confirm your age" \in stderr_output
    /\ "age-restricted" \notin stderr_output
    /\ payload > 0
    /\ emitted = <<>>

\* C5: in the mp3 path, when the transcode process has exited nonzero or has
\* left no output file, the request has failed with 403 (age-restriction marker
\* in the diagnostics) or 502 (otherwise), no streaming response was created
\* and no body byte was sent.
C5_Mp3FailsBeforeBody ==
    /\ Audio
    /\ dlProc = "exited"
    /\ pc # "mp3_got"
    /\ returncode # 0 \/ ~tempEver
    => /\ pc = "done"
       /\ status = (IF ContainsAgeMarker THEN 403 ELSE 502)
       /\ ~streaming
       /\ cleanup = "none"
       /\ sent = 0

C5_Witness ==
    /\ Audio
    /\ pc = "done"
    /\ dlProc = "exited"
    /\ returncode = 0
    /\ ~tempEver
    /\ status = 502

\* C6: a download request with a valid url, whatever its format, has failed with
\* status 500 when yt-dlp or ffmpeg is missing, without a process spawned or a
\* temporary file created.
C6_MissingBinaryFails ==
    /\ endpoint = "download"
    /\ url \in ValidUrls
    /\ have # Binaries
    /\ pc # "start"
    => /\ pc = "done"
       /\ status = 500
       /\ spawned = 0
       /\ ~tempEver

\* C7: on both endpoints a request whose url is absent, empty or does not match
\* the pattern has failed with status 400 (also when a binary is missing: the
\* binaries are not looked for), without a process spawned, a temporary file
\* created or a streaming response.
C7_InvalidUrlRejected ==
    url \in InvalidUrls /\ pc # "start"
    => /\ pc = "done"
       /\ status = 400
       /\ spawned = 0
       /\ metaProc = "none"
       /\ dlProc = "none"
       /\ ~tempEver
       /\ ~streaming

C7_Witness ==
    /\ endpoint = "download"
    /\ url = Str(<<"https://", "vimeo.com", "/", "watch">>)
    /\ have = {}
    /\ pc = "done"
    /\ status = 400

\* C8 as claimed: a request never has spawned more than one external process.
C8_OneProcess == spawned <= 1

\* C8 amended: a preview request spawns at most one external process and a
\* download request at most two, the metadata process and then the download or
\* transcode process, the second only after the first has exited.
C8_AtMostTwoInTurn ==
    /\ spawned = (IF metaProc = "none" THEN 0 ELSE 1) + (IF dlProc = "none" THEN 0 ELSE 1)
    /\ endpoint = "video_info" => dlProc = "none"
    /\ dlProc # "none" => metaProc = "exited"

C8_Witness ==
    /\ endpoint = "download"
    /\ pc = "done"
    /\ spawned = 2
    /\ metaProc = "exited"
    /\ dlProc = "exited"

\* C9: in the pipe path, when the download process has exited nonzero with
\* diagnostics that contain an age-restriction marker or lack the benign
\* warning, the body has ended with no byte yielded.
C9_FatalExitEmptyBody ==
    /\ Pipe
    /\ dlProc = "exited"
    /\ gen # "got"
    /\ returncode # 0
    /\ ContainsAgeMarker \/ BenignMarker \notin stderr_output
    => /\ pc = "done"
       /\ gen = "done"
       /\ emitted = <<>>
       /\ total_bytes = 0

C9_Witness ==
    /\ Pipe
    /\ pc = "done"
    /\ dlProc = "exited"
    /\ returncode # 0
    /\ ContainsAgeMarker
    /\ BenignMarker \in stderr_output
    /\ payload > chunk_size
    /\ emitted = <<>>

\* C10: the metadata fetch returns a value only after a zero exit with output
\* that parses; a nonzero exit gives 403 with an age-restriction marker and 502
\* without, a zero exit with output that does not parse gives 502; on each of
\* these failures no metadata is returned and the endpoint does nothing more.
C10_MetaFetchOutcomes ==
    [][pc = "meta_got" /\ pc' # pc =>
        LET parses == meta_stdout \in {"object", "nonobject"}
            failed == returncode # 0 \/ ~parses
        IN  /\ meta' # "none" => returncode = 0 /\ parses
            /\ returncode # 0 /\ ContainsAgeMarker => status' = 403
            /\ returncode # 0 /\ ~ContainsAgeMarker => status' = 502
            /\ returncode = 0 /\ ~parses => status' = 502
            /\ failed => /\ meta' = "none"
                         /\ pc' = "done"
                         /\ spawned' = spawned
                         /\ ~streaming'
                         /\ ~tempEver']_vars

\* C13: after a request was cancelled or its client disconnected, at whatever
\* point, no external process the request spawned is running.
C13_NoProcessAfterCancel ==
    pc = "done" /\ outcome \in {"cancelled", "disconnect"}
        => metaProc # "running" /\ dlProc # "running"

\* C15: in the pipe path a byte is yielded to the client only when the download
\* process has terminated and its exit status is known.
C15_EmitAfterExit ==
    Pipe /\ (emitted # <<>> \/ total_bytes > 0 \/ gen = "yield")
        => dlProc = "exited" /\ returncode # NoReturnCode

C15_Witness ==
    /\ Pipe
    /\ gen = "yield"
    /\ emitted # <<>>
    /\ dlProc = "exited"
    /\ pc = "body"

\* what the relay loop yields of a payload of n bytes when it runs to its end
Relayed(n) == IF n > MAX_BYTES THEN CeilingFloor ELSE n

\* the diagnostics hold the benign warning and no age-restriction marker
BenignOnly == BenignMarker \in stderr_output /\ ~ContainsAgeMarker

\* C16: in the pipe path a nonzero exit whose diagnostics hold the benign warning
\* and no age-restriction marker is not fatal: when the generator has run to its
\* end the payload was relayed up to the ceiling, the same as after a zero exit.
C16_BenignWarningRelays ==
    /\ Pipe /\ pc = "done" /\ dlProc = "exited" /\ outcome # "disconnect"
    /\ returncode = 0 \/ BenignOnly
    => /\ RelayEnded
       /\ IsPrefix(emitted, Relayed(stdout_data))
       /\ stdout_data = payload

C16_Witness ==
    /\ Pipe
    /\ pc = "done"
    /\ returncode # 0
    /\ BenignOnly
    /\ outcome = "complete"
    /\ payload > chunk_size
    /\ IsPrefix(emitted, payload)

\* C19: in the pipe path the bytes yielded so far are at every moment a prefix
\* of stdout_data, as long as the offset the loop has reached; when the
\* generator has run to its end after a non-fatal exit with a payload within the
\* ceiling, they are the whole payload.
C19_EmittedIsPrefix ==
    Pipe =>
        /\ IsPrefix(emitted, RunsLen(emitted))
        /\ RunsLen(emitted) <= stdout_data
        /\ gen = "yield" => RunsLen(emitted) = Min(i, stdout_data)
        /\ RelayEnded /\ stdout_data <= MAX_BYTES => IsPrefix(emitted, payload)

C19_Witness ==
    /\ Pipe
    /\ outcome = "complete"
    /\ payload = 2 * chunk_size + 1
    /\ emitted = <<[lo |-> 0, hi |-> 2 * chunk_size + 1]>>

\* C20: in a download request the download or transcode process is spawned only
\* in the step after a metadata fetch that exited zero with an object parsed,
\* when the metadata process has exited; a request that ended in a failed
\* metadata fetch has spawned no second process, created no temporary file and
\* returned no streaming response.
C20_DownloadAfterMetadata ==
    [][/\ dlProc = "none" /\ dlProc' # "none" =>
            /\ pc = "meta_got"
            /\ metaProc = "exited"
            /\ returncode = 0
            /\ meta_stdout = "object"
            /\ meta' = "object"
       /\ pc = "meta_got" /\ (returncode # 0 \/ meta_stdout # "object") =>
            /\ dlProc' = "none"
            /\ pc' \in {"meta_got", "done"}
            /\ spawned' = 1
            /\ ~tempEver'
            /\ ~streaming']_vars

C20_Witness ==
    /\ endpoint = "download"
    /\ outcome = "meta_error"
    /\ status = 403
    /\ spawned = 1
    /\ dlProc = "none"

----------------------------------------------------------------------------
(* The preview: what the claims say of the selection, said without the      *)
(* selection's own operators.  A height or bitrate that is missing or null  *)
(* counts as 0, as the filter's `or 0` and the keys' defaults count it.     *)

Known(x) == IF x = Absent \/ x = Null THEN 0 ELSE x

HeightBitrate(f) == <<Known(f.height), Known(f.vbr)>>

LexGe(a, b) == a[1] > b[1] \/ (a[1] = b[1] /\ a[2] >= b[2])

\* the ceiling the quality asks for
Ceiling ==
    CASE quality_req = best -> 10000
      [] quality_req = <<"3", "6", "0", "p">> -> 360
      [] quality_req = <<"7", "2", "0", "p">> -> 720

VideoPreview == endpoint = "video_info" /\ format # "mp3"

Mp3Preview == endpoint = "video_info" /\ format = "mp3"

\* the positions of the video-only streams at most h high
VideoOnlyUnder(h) ==
    {p \in 1..Len(formats) :
        /\ formats[p].vcodec # "none" /\ formats[p].acodec = "none"
        /\ Known(formats[p].height) <= h}

\* the positions of the audio-only streams
AudioOnlyIn ==
    {p \in 1..Len(formats) : formats[p].acodec # "none" /\ formats[p].vcodec = "none"}

\* the positions of the combined streams at most h high
CombinedUnder(h) ==
    {p \in 1..Len(formats) :
        /\ formats[p].vcodec # "none" /\ formats[p].acodec # "none"
        /\ Known(formats[p].height) <= h}

\* p is a maximum of the positions c by (height, videoBitrate), and the first one
LexMaxOf(p, c) ==
    /\ p \in c
    /\ \A o \in c : LexGe(HeightBitrate(formats[p]), HeightBitrate(formats[o]))
    /\ \A o \in c : HeightBitrate(formats[o]) = HeightBitrate(formats[p]) => p <= o

\* p is a maximum of the positions c by audio bitrate, and the first one
AbrMaxOf(p, c) ==
    /\ p \in c
    /\ \A o \in c : Known(formats[p].abr) >= Known(formats[o].abr)
    /\ \A o \in c : Known(formats[o].abr) = Known(formats[p].abr) => p <= o

\* the video selection of a preview that responded is the one the claim names
VideoSelected ==
    IF VideoOnlyUnder(Ceiling) = {} THEN best_video = 0
    ELSE /\ LexMaxOf(best_video, VideoOnlyUnder(Ceiling))
         /\ Known(formats[best_video].height) <= Ceiling

\* every audio-only stream has an audio bitrate (missing or a number)
AudioBitratesKnown == \A p \in AudioOnlyIn : formats[p].abr # Null

\* when the preview responds, the selection is the maximum under the ceiling
C11_MaxWhenResponded ==
    VideoPreview /\ outcome = "info_ok" => VideoSelected

\* C11: a video preview ends with the video-only stream selected that is at
\* most as high as the ceiling (10000 for 'best') and is the lexicographic
\* maximum by (height, videoBitrate) among the video-only streams under the
\* ceiling, for every list of streams (here: every list whose audio-only
\* streams have their bitrates)
C11_VideoSelection ==
    VideoPreview /\ pc = "done" /\ AudioBitratesKnown
        => outcome = "info_ok" /\ C11_MaxWhenResponded

\* a preview that responded with a choice between streams of different
\* heights under a ceiling that excludes a third
C11_Witness ==
    /\ VideoPreview /\ outcome = "info_ok"
    /\ Ceiling = 360
    /\ best_video = 2
    /\ formats[1].height = 720 /\ formats[1].acodec = "none" /\ formats[1].vcodec # "none"
    /\ formats[2].height = 360

\* the size of a stream: the exact one if it has one, else the approximate
\* one, else unknown
SizeOf(f) ==
    IF f.filesize # Absent /\ f.filesize # Null THEN f.filesize
    ELSE IF f.filesize_approx # Absent /\ f.filesize_approx # Null THEN f.filesize_approx
    ELSE Null

NotAvailable == [text |-> "N/A"]

\* the audio selection and the estimate of an mp3 preview that responded
Mp3Selected ==
    IF AudioOnlyIn = {}
    THEN best_audio = 0 /\ estimated_size = Null /\ body = NotAvailable
    ELSE /\ AbrMaxOf(best_audio, AudioOnlyIn)
         /\ estimated_size = SizeOf(formats[best_audio])
         /\ estimated_size = Null <=> body = NotAvailable

\* when the mp3 preview responds, the selection and the estimate are the
\* claimed ones, and it responds when there is no audio-only stream
C12_MaxWhenResponded ==
    /\ Mp3Preview /\ outcome = "info_ok" => Mp3Selected
    /\ Mp3Preview /\ pc = "done" /\ AudioOnlyIn = {} => outcome = "info_ok"

\* C12: an mp3 preview ends with the audio-only stream of the maximum audio
\* bitrate selected, the first of them on a tie, and with that stream's size
\* (the exact one preferred) or unknown as the estimate; without an audio-only
\* stream nothing is selected and the estimate is rendered "N/A"; the request
\* does not crash
C12_Mp3Selection ==
    Mp3Preview /\ pc = "done" => outcome = "info_ok" /\ C12_MaxWhenResponded

\* a tie between two audio-only streams: the first one is selected, its exact
\* size is the estimate
C12_Witness ==
    /\ Mp3Preview /\ outcome = "info_ok"
    /\ AudioOnlyIn = {1, 2}
    /\ formats[1].abr = 2 /\ formats[2].abr = 2
    /\ formats[1].filesize = 1152 /\ formats[1].filesize_approx = 2048
    /\ formats[2].filesize_approx = 1536
    /\ best_audio = 1
    /\ estimated_size = 1152
    /\ body = [hundredths |-> 112, unit |-> "KB"]

\* no audio-only stream: nothing is selected, "N/A"
C12_WitnessNone ==
    /\ Mp3Preview /\ outcome = "info_ok"
    /\ Len(formats) = 2 /\ AudioOnlyIn = {}
    /\ best_audio = 0 /\ body = NotAvailable

\* every video-only stream has a height and a bitrate (missing or a number)
VideoOnlyKeysKnown ==
    \A p \in 1..Len(formats) :
        formats[p].vcodec # "none" /\ formats[p].acodec = "none"
            => formats[p].height # Null /\ formats[p].vbr # Null

\* unknown counted as 0
AsZero(size) == IF size = Null THEN 0 ELSE size

\* the estimate of a video preview that responded
VideoEstimated ==
    IF VideoOnlyUnder(Ceiling) # {} /\ AudioOnlyIn # {}
    THEN /\ best_video # 0 /\ best_audio # 0
         /\ estimated_size =
                AsZero(SizeOf(formats[best_video])) + AsZero(SizeOf(formats[best_audio]))
    ELSE IF CombinedUnder(Ceiling) = {}
         THEN best_combined = 0 /\ estimated_size = Null
         ELSE /\ LexMaxOf(best_combined, CombinedUnder(Ceiling))
              /\ estimated_size = SizeOf(formats[best_combined])

\* when the video preview responds, the estimate is the claimed one
C17_EstimateWhenResponded ==
    VideoPreview /\ outcome = "info_ok" =>
        /\ VideoEstimated
        /\ AudioOnlyIn # {} => AbrMaxOf(best_audio, AudioOnlyIn)
        /\ estimated_size = Null <=> body = NotAvailable

\* C17: a video preview ends with an estimate: the sum of the sizes of the
\* best video-only stream under the ceiling and of the best audio-only
\* stream, an unknown size counted as 0, when both exist; else the size of
\* the combined stream under the ceiling that is maximal by (height,
\* videoBitrate), or unknown when it has no size or there is none (here: for
\* every list whose video-only and audio-only streams have their keys)
C17_VideoEstimate ==
    VideoPreview /\ pc = "done" /\ VideoOnlyKeysKnown /\ AudioBitratesKnown
        => outcome = "info_ok" /\ C17_EstimateWhenResponded

\* the sum with one size unknown
C17_WitnessSum ==
    /\ VideoPreview /\ outcome = "info_ok"
    /\ best_video = 1 /\ best_audio = 2
    /\ SizeOf(formats[1]) = Null
    /\ SizeOf(formats[2]) = 1536
    /\ estimated_size = 1536
    /\ body = [hundredths |-> 150, unit |-> "KB"]

\* no audio-only stream: the combined stream under the ceiling gives the size
C17_WitnessCombined ==
    /\ VideoPreview /\ outcome = "info_ok"
    /\ Ceiling = 360
    /\ VideoOnlyUnder(Ceiling) = {1} /\ AudioOnlyIn = {}
    /\ best_video = 1 /\ best_audio = 0 /\ best_combined = 2
    /\ estimated_size = 1536

----------------------------------------------------------------------------
(* File names: what the claim says of the sanitized title, position by      *)
(* position of the title.                                                   *)

Trimmed == {"_", ".", "-"}

\* the positions of the title that give a character: the allowed characters
\* and the first character of each run of whitespace
Giving ==
    {n \in 1..Len(title) :
        \/ title[n] \in AllowedChars
        \/ title[n] \in Whitespace /\ (n = 1 \/ title[n - 1] \notin Whitespace)}

\* the character position n gives
Given(n) == IF title[n] \in Whitespace THEN "_" ELSE title[n]

\* the giving positions whose character is not one that is trimmed
Solid == {n \in Giving : Given(n) \notin Trimmed}

\* the giving positions from the first solid one to the last
Kept == {n \in Giving : \E a, b \in Solid : a <= n /\ n <= b}

\* the sanitized title is made of the characters the kept positions give, in order
SanitizedAsClaimed ==
    IF Solid = {} THEN safe_title = download
    ELSE /\ Len(safe_title) = Cardinality(Kept)
         /\ \A n \in Kept : safe_title[Cardinality({m \in Kept : m <= n})] = Given(n)

Sanitized == endpoint = "download" /\ dlProc # "none"

\* C18: the sanitized title is not empty, has only characters of
\* [A-Za-z0-9_.-], neither starts nor ends with "_", "." or "-", has one
\* underscore for each run of whitespace and none of the other disallowed
\* characters of the title, is "download" when nothing else is left, and is
\* its own sanitized form
C18_SanitizeFilename ==
    Sanitized =>
        /\ safe_title # <<>>
        /\ \A n \in 1..Len(safe_title) : safe_title[n] \in AllowedChars
        /\ safe_title[1] \notin Trimmed /\ safe_title[Len(safe_title)] \notin Trimmed
        /\ SanitizedAsClaimed
        /\ sanitize_filename(safe_title) = safe_title

\* a run of two whitespace characters and a disallowed character inside
C18_Witness ==
    /\ Sanitized
    /\ title = <<"a", "\t", " ", "!", "a">>
    /\ safe_title = <<"a", "_", "a">>

\* nothing is left of the title
C18_WitnessDownload ==
    /\ Sanitized
    /\ title = <<" ", "!", ".">>
    /\ safe_title = download

----------------------------------------------------------------------------
(* Concurrent mp3 downloads *)

\* the request has its output_path and has not ended
InFlight(r) == requests[r].pc \in {"mp3_wait", "body", "sent"}

\* nothing of another request reached the file of r or its client
Isolated(r) ==
    /\ requests[r].sent \in {0, r}
    /\ requests[r].outcome # "open_error"
    /\ requests[r].pc \in {"body", "sent"} =>
            \E f \in temp_dir : f.path = requests[r].output_path /\ f.by = r

\* requests whose paths differ do not touch each other's file
C14_DistinctPathsIsolate ==
    /\ requests # <<>> /\ requests[1].output_path # requests[2].output_path
        => Isolated(1) /\ Isolated(2)
    /\ requests # <<>> /\ InFlight(1) /\ InFlight(2)
       /\ requests[1].output_path = requests[2].output_path
        => sanitize_filename(requests[1].title) = sanitize_filename(requests[2].title)

\* C14: two mp3 downloads in flight at the same time, also for the same
\* title, have different temporary file paths; no request's output or cleanup
\* overwrites or deletes the file another one is writing or streaming
C14_DistinctTempPaths ==
    requests # <<>> =>
        /\ InFlight(1) /\ InFlight(2) => requests[1].output_path # requests[2].output_path
        /\ Isolated(1) /\ Isolated(2)

\* two downloads of the same title in flight with different paths
C14_WitnessDistinct ==
    /\ requests # <<>>
    /\ requests[1].title = requests[2].title
    /\ requests[1].pc = "body" /\ requests[2].pc = "body"
    /\ requests[1].output_path # requests[2].output_path
    /\ Isolated(1) /\ Isolated(2)

\* a client got the file another request wrote
C14_WitnessForeign ==
    requests # <<>> /\ requests[1].pc = "done" /\ requests[1].sent = 2

============================================================================
